---- MODULE Spec2Model ----
(***************************************************************************)
(* Configuration resolution and datasource payload construction of        *)
(* backend/settings.py.                                                    *)
(*                                                                         *)
(* Python objects and dicts are functions from field names to values.  A   *)
(* model field whose value is None is a key that is absent from the        *)
(* function, so model_dump(exclude_none=True) is a restriction of the      *)
(* function.  Inside a plain dict (fields_mapping) None is the value NULL, *)
(* because pydantic applies exclude_none to model fields only and keeps    *)
(* the None values of a dict-typed field.                                  *)
(* An Optional return value is a box: None is <<>>, a value v is <<v>>.    *)
(***************************************************************************)
EXTENDS Integers, Sequences, FiniteSets, TLC

VARIABLES environ, phase, app, calls

vars == <<environ, phase, app, calls>>

-----------------------------------------------------------------------------
(* Bounds *)

\* how many required variables of the selected backend the environment may lack
MaxMissing == 1

\* how many distinct bearer tokens requests carry
NumTokens == 2

-----------------------------------------------------------------------------
(* dicts *)

NULL == "NULL"

Empty == [k \in {} |-> NULL]

Has(d, k) == k \in DOMAIN d

Put(d, k, v) == [x \in DOMAIN d \cup {k} |-> IF x = k THEN v ELSE d[x]]

Del(d, k) == [x \in DOMAIN d \ {k} |-> d[x]]

\* a.update(b): the keys of both, b's value where both have the key
Update(a, b) == [x \in DOMAIN a \cup DOMAIN b |-> IF x \in DOMAIN b THEN b[x] ELSE a[x]]

None == <<>>

Some(v) == <<v>>

\* self.<k> = <box>
Assign(d, k, box) == IF box = None THEN Del(d, k) ELSE Put(d, k, box[1])

\* d.get(k) of a column that may be unset, as a dict value
ValueOrNull(d, k) == IF Has(d, k) THEN d[k] ELSE NULL

\* the outcome of a function that may raise
Returned(v) == [raised |-> FALSE, value |-> v]

Raises(err) == [raised |-> TRUE, error |-> err]

-----------------------------------------------------------------------------
(* pydantic-settings: a class reads, for each field, the environment      *)
(* variable <env_prefix><FIELD> (or its validation_alias); an empty value  *)
(* counts as unset (env_ignore_empty), so every value of environ is        *)
(* non-empty.  A variable is the pair <<prefix, FIELD>>; names maps a      *)
(* field to its variable.                                                  *)

Load(env, names) ==
    [f \in {g \in DOMAIN names : names[g] \in DOMAIN env} |-> env[names[f]]]

\* the result of constructing a settings object
Constructed(obj) == [ok |-> TRUE, obj |-> obj]

Raised(err) == [ok |-> FALSE, error |-> err]

\* field validation of a settings class: a required field without a value is a
\* ValidationError; a field with a default takes it when the variable is unset
ValidateFields(env, names, required, defaults) ==
    LET raw == Load(env, names)
    IN  IF required \subseteq DOMAIN raw
        THEN Constructed(Update(defaults, raw))
        ELSE Raised("ValidationError")

-----------------------------------------------------------------------------
(* Settings groups *)

BaseSettingsNames == [datasource_type |-> <<"", "DATASOURCE_TYPE">>]

BaseSettingsDefaults ==
    [auth_enabled |-> TRUE, sanitize_answer |-> FALSE, use_promptflow |-> FALSE]

BaseSettings(env) == ValidateFields(env, BaseSettingsNames, {}, BaseSettingsDefaults)

UiSettingsDefaults ==
    [title |-> "Contoso", favicon |-> "/favicon.ico",
     show_share_button |-> TRUE, show_chat_history_button |-> TRUE]

UiSettings(env) == ValidateFields(env, Empty, {}, UiSettingsDefaults)

ChatHistoryNames ==
    [database |-> <<"AZURE_COSMOSDB_", "DATABASE">>,
     account |-> <<"AZURE_COSMOSDB_", "ACCOUNT">>,
     account_key |-> <<"AZURE_COSMOSDB_", "ACCOUNT_KEY">>,
     conversations_container |-> <<"AZURE_COSMOSDB_", "CONVERSATIONS_CONTAINER">>]

ChatHistorySettings(env) ==
    ValidateFields(env, ChatHistoryNames,
                   {"database", "account", "conversations_container"},
                   [enable_feedback |-> FALSE])

PromptflowNames ==
    [endpoint |-> <<"PROMPTFLOW_", "ENDPOINT">>, api_key |-> <<"PROMPTFLOW_", "API_KEY">>]

PromptflowSettings(env) ==
    ValidateFields(env, PromptflowNames, {"endpoint", "api_key"},
                   [request_field_name |-> "query", response_field_name |-> "reply",
                    citations_field_name |-> "documents"])

AzureOpenAINames ==
    [model |-> <<"AZURE_OPENAI_", "MODEL">>,
     key |-> <<"AZURE_OPENAI_", "KEY">>,
     resource |-> <<"AZURE_OPENAI_", "RESOURCE">>,
     endpoint |-> <<"AZURE_OPENAI_", "ENDPOINT">>,
     embedding_endpoint |-> <<"AZURE_OPENAI_", "EMBEDDING_ENDPOINT">>,
     embedding_key |-> <<"AZURE_OPENAI_", "EMBEDDING_KEY">>,
     embedding_name |-> <<"AZURE_OPENAI_", "EMBEDDING_NAME">>,
     tools |-> <<"AZURE_OPENAI_", "TOOLS">>,
     logit_bias |-> <<"AZURE_OPENAI_", "LOGIT_BIAS">>]

AzureOpenAIDefaults ==
    [stream |-> TRUE, preview_api_version |-> "2024-05-01-preview"]

\* ensure_endpoint without the final raise
ensure_endpoint_unchecked(self) ==
    IF Has(self, "endpoint") THEN Constructed(self)
    ELSE IF Has(self, "resource")
    THEN Constructed(Put(self, "endpoint",
                         <<"https://", self["resource"], ".openai.azure.com">>))
    ELSE Constructed(self)

\* the after-validator: an explicit endpoint is kept, else one is derived from
\* the resource, else the validator raises.  What it raises is built by calling
\* pydantic's ValidationError with a message, which that class does not accept,
\* so the failure is a TypeError.
ensure_endpoint(self) ==
    IF Has(self, "endpoint") THEN Constructed(self)
    ELSE IF Has(self, "resource")
    THEN Constructed(Put(self, "endpoint",
                         <<"https://", self["resource"], ".openai.azure.com">>))
    ELSE Raised("TypeError")

\* the texts json.loads accepts, among the values a JSON-encoded variable takes
BiasJson == "{\"50256\": -100}"

ToolJson == "{\"function\": {\"name\": \"f\", \"description\": \"d\"}}"

WellFormedJson == {BiasJson, ToolJson}

\* json.loads: the decoded value, or JSONDecodeError
json_loads(text) ==
    IF text \in WellFormedJson THEN Returned([kind |-> "dict", text |-> text])
    ELSE Raises("JSONDecodeError")

\* what the environment source hands to the validators of a field declared
\* Optional[<dict or list>]: the variable's text decoded as JSON, and the text
\* itself when it does not decode (pydantic-settings tolerates the parse
\* failure of a field whose annotation is a Union with a complex member)
prepare_field_value(text) ==
    LET decoded == json_loads(text)
    IN  IF decoded.raised THEN [kind |-> "str", text |-> text] ELSE decoded.value

\* the before-validator of tools.  A decoded text becomes one _AzureOpenAITool,
\* or None when the tool does not validate.
deserialize_tools(tools_json_str) ==
    IF tools_json_str.kind = "str"
    THEN LET tools_dict == json_loads(tools_json_str.text)
         IN  IF tools_dict.raised THEN Returned(None)
             ELSE IF tools_dict.value.text = ToolJson
             THEN Returned(Some([kind |-> "tool", text |-> tools_dict.value.text]))
             ELSE Returned(None)
    ELSE Returned(None)

\* deserialize_logit_bias with the except clause left out
deserialize_logit_bias_uncaught(logit_bias_json_str) ==
    IF logit_bias_json_str.kind = "str"
    THEN LET decoded == json_loads(logit_bias_json_str.text)
         IN  IF decoded.raised THEN decoded ELSE Returned(Some(decoded.value))
    ELSE Returned(None)

\* the before-validator of logit_bias
deserialize_logit_bias(logit_bias_json_str) ==
    IF logit_bias_json_str.kind = "str"
    THEN LET decoded == json_loads(logit_bias_json_str.text)
         IN  IF decoded.raised THEN Returned(None) ELSE Returned(Some(decoded.value))
    ELSE Returned(None)

\* field validation of tools and logit_bias: the before-validator, then the
\* declared type.  An exception that leaves a validator, and a tools value that
\* is no list, are a ValidationError.
AzureOpenAI_validate_json_fields(self) ==
    LET tools == IF Has(self, "tools")
                 THEN deserialize_tools(prepare_field_value(self["tools"]))
                 ELSE Returned(None)
        logit_bias == IF Has(self, "logit_bias")
                      THEN deserialize_logit_bias(prepare_field_value(self["logit_bias"]))
                      ELSE Returned(None)
    IN  IF tools.raised \/ logit_bias.raised THEN Raised("ValidationError")
        ELSE IF tools.value # None /\ tools.value[1].kind # "list"
        THEN Raised("ValidationError")
        ELSE Constructed(Assign(Assign(self, "tools", tools.value),
                                "logit_bias", logit_bias.value))

AzureOpenAISettings(env) ==
    LET v == ValidateFields(env, AzureOpenAINames, {"model"}, AzureOpenAIDefaults)
        fields == IF v.ok THEN AzureOpenAI_validate_json_fields(v.obj) ELSE v
    IN  IF fields.ok THEN ensure_endpoint(fields.obj) ELSE fields

\* extract_embedding_dependency testing the endpoint before the name
extract_embedding_dependency_endpoint_first(self) ==
    IF Has(self, "embedding_endpoint")
    THEN IF Has(self, "embedding_key")
         THEN Some([type |-> "endpoint", endpoint |-> self["embedding_endpoint"],
                    authentication |-> [type |-> "api_key", key |-> self["embedding_key"]]])
         ELSE Some([type |-> "endpoint", endpoint |-> self["embedding_endpoint"],
                    authentication |-> [type |-> "system_assigned_managed_identity"]])
    ELSE IF Has(self, "embedding_name")
    THEN Some([type |-> "deployment_name", deployment_name |-> self["embedding_name"]])
    ELSE None

extract_embedding_dependency(self) ==
    IF Has(self, "embedding_name")
    THEN Some([type |-> "deployment_name", deployment_name |-> self["embedding_name"]])
    ELSE IF Has(self, "embedding_endpoint")
    THEN IF Has(self, "embedding_key")
         THEN Some([type |-> "endpoint", endpoint |-> self["embedding_endpoint"],
                    authentication |-> [type |-> "api_key", key |-> self["embedding_key"]]])
         ELSE Some([type |-> "endpoint", endpoint |-> self["embedding_endpoint"],
                    authentication |-> [type |-> "system_assigned_managed_identity"]])
    ELSE None

SearchCommonNames ==
    [max_search_queries |-> <<"SEARCH_", "MAX_SEARCH_QUERIES">>,
     vectorization_dimensions |-> <<"SEARCH_", "VECTORIZATION_DIMENSIONS">>]

\* the Search settings declaring a field under a name the variants also have
SearchCommonDefaults_colliding ==
    [allow_partial_result |-> FALSE,
     include_contexts |-> <<"citations", "intent">>,
     role_information |-> "You are an AI assistant that helps people find information.",
     strictness |-> 1]

SearchCommonDefaults ==
    [allow_partial_result |-> FALSE,
     include_contexts |-> <<"citations", "intent">>,
     role_information |-> "You are an AI assistant that helps people find information."]

SearchCommonSettings(env) ==
    ValidateFields(env, SearchCommonNames, {}, SearchCommonDefaults)

-----------------------------------------------------------------------------
(* model_dump(exclude_none=True, by_alias=True): the fields that are set   *)
(* and not excluded, each under its serialization alias.  Private          *)
(* attributes are no fields.                                               *)

PrivateAttrs == {"__class__", "_type"}

AliasOf(aliases, f) == IF f \in DOMAIN aliases THEN aliases[f] ELSE f

model_dump(self, excluded, aliases) ==
    LET emitted == DOMAIN self \ (excluded \cup PrivateAttrs)
    IN  [k \in {AliasOf(aliases, f) : f \in emitted} |->
            self[CHOOSE f \in emitted : AliasOf(aliases, f) = k]]

\* every variant with top_k, enable_in_domain and index declares these aliases
CommonAliases ==
    [top_k |-> "top_n_documents", enable_in_domain |-> "in_scope"]

RoleColumns ==
    {"content_columns", "vector_columns", "title_column", "url_column", "filename_column"}

SearchCommonDump(search) == model_dump(search, {}, Empty)

-----------------------------------------------------------------------------
(* Datasource variants.  Each constructor validates the declared fields    *)
(* and then runs the class's after-validators in the order of definition.  *)

\* set_fields_mapping, the same in the six classes that have role columns
set_fields_mapping(self) ==
    Put(self, "fields_mapping",
        [content_fields |-> ValueOrNull(self, "content_columns"),
         title_field    |-> ValueOrNull(self, "title_column"),
         url_field      |-> ValueOrNull(self, "url_column"),
         filepath_field |-> ValueOrNull(self, "filename_column"),
         vector_fields  |-> ValueOrNull(self, "vector_columns")])

RoleColumnNames(prefix) ==
    [content_columns |-> <<prefix, "CONTENT_COLUMNS">>,
     vector_columns  |-> <<prefix, "VECTOR_COLUMNS">>,
     title_column    |-> <<prefix, "TITLE_COLUMN">>,
     url_column      |-> <<prefix, "URL_COLUMN">>,
     filename_column |-> <<prefix, "FILENAME_COLUMN">>]

NarrowingDefaults == [top_k |-> 5, strictness |-> 3, enable_in_domain |-> TRUE]

(* _AzureSearchSettings *)

AzureSearchNames ==
    Update([service |-> <<"AZURE_SEARCH_", "SERVICE">>,
            index   |-> <<"AZURE_SEARCH_", "INDEX">>,
            key     |-> <<"AZURE_SEARCH_", "KEY">>,
            permitted_groups_column |-> <<"AZURE_SEARCH_", "PERMITTED_GROUPS_COLUMN">>],
           RoleColumnNames("AZURE_SEARCH_"))

AzureSearchRequired == {"service", "index"}

AzureSearchDefaults ==
    Update(NarrowingDefaults,
           [endpoint_suffix |-> "search.windows.net", use_semantic_search |-> FALSE,
            semantic_search_config |-> "", query_type |-> "simple"])

\* the key field declared without exclude=True
AzureSearchExcluded_leaking ==
    {"service", "endpoint_suffix", "use_semantic_search",
     "permitted_groups_column", "filter"} \cup RoleColumns

\* the filter field declared without exclude=True
AzureSearchExcluded_emitting_filter ==
    {"service", "endpoint_suffix", "key", "use_semantic_search",
     "permitted_groups_column"} \cup RoleColumns

AzureSearchExcluded ==
    {"service", "endpoint_suffix", "key", "use_semantic_search",
     "permitted_groups_column", "filter"} \cup RoleColumns

AzureSearchAliases ==
    Update(CommonAliases,
           [index |-> "index_name", semantic_search_config |-> "semantic_configuration"])

AzureSearch_set_endpoint(self) ==
    Put(self, "endpoint", <<"https://", self["service"], ".", self["endpoint_suffix"]>>)

AzureSearch_set_authentication(self) ==
    IF Has(self, "key")
    THEN Put(self, "authentication", [type |-> "api_key", key |-> self["key"]])
    ELSE Put(self, "authentication", [type |-> "system_assigned_managed_identity"])

\* pydantic.alias_generators.to_snake on the values the Literal admits
to_snake(s) ==
    CASE s = "vectorSimpleHybrid"   -> "vector_simple_hybrid"
      [] s = "vectorSemanticHybrid" -> "vector_semantic_hybrid"
      [] OTHER -> s

AzureSearch_set_query_type(self) == Put(self, "query_type", to_snake(self["query_type"]))

AzureSearchSettings(env) ==
    LET v == ValidateFields(env, AzureSearchNames, AzureSearchRequired, AzureSearchDefaults)
    IN  IF v.ok
        THEN Constructed(
                AzureSearch_set_query_type(
                  set_fields_mapping(
                    AzureSearch_set_authentication(
                      AzureSearch_set_endpoint(
                        Update(v.obj, [__class__ |-> "_AzureSearchSettings",
                                       _type |-> "azure_search"]))))))
        ELSE v

(* _AzureCosmosDbMongoVcoreSettings *)

CosmosNames ==
    Update([connection_string |-> <<"AZURE_COSMOSDB_MONGO_VCORE_", "CONNECTION_STRING">>,
            index     |-> <<"AZURE_COSMOSDB_MONGO_VCORE_", "INDEX">>,
            database  |-> <<"AZURE_COSMOSDB_MONGO_VCORE_", "DATABASE">>,
            container |-> <<"AZURE_COSMOSDB_MONGO_VCORE_", "CONTAINER">>],
           RoleColumnNames("AZURE_COSMOSDB_MONGO_VCORE_"))

CosmosRequired == {"connection_string", "index", "database", "container"}

CosmosDefaults == Update(NarrowingDefaults, [query_type |-> "vector"])

CosmosExcluded == {"connection_string"} \cup RoleColumns

CosmosAliases ==
    Update(CommonAliases,
           [index |-> "index_name", database |-> "database_name",
            container |-> "container_name"])

Cosmos_construct_authentication(self) ==
    Put(self, "authentication",
        [type |-> "connection_string", connection_string |-> self["connection_string"]])

AzureCosmosDbMongoVcoreSettings(env) ==
    LET v == ValidateFields(env, CosmosNames, CosmosRequired, CosmosDefaults)
    IN  IF v.ok
        THEN Constructed(
                set_fields_mapping(
                  Cosmos_construct_authentication(
                    Update(v.obj, [__class__ |-> "_AzureCosmosDbMongoVcoreSettings",
                                   _type |-> "azure_cosmosdb"]))))
        ELSE v

(* _ElasticsearchSettings *)

ElasticsearchNames ==
    Update([endpoint        |-> <<"ELASTICSEARCH_", "ENDPOINT">>,
            encoded_api_key |-> <<"ELASTICSEARCH_", "ENCODED_API_KEY">>,
            index           |-> <<"ELASTICSEARCH_", "INDEX">>,
            embedding_model_id |-> <<"ELASTICSEARCH_", "EMBEDDING_MODEL_ID">>],
           RoleColumnNames("ELASTICSEARCH_"))

ElasticsearchRequired == {"endpoint", "encoded_api_key", "index"}

ElasticsearchDefaults == Update(NarrowingDefaults, [query_type |-> "simple"])

ElasticsearchExcluded == {"encoded_api_key", "embedding_model_id"} \cup RoleColumns

ElasticsearchAliases == Update(CommonAliases, [index |-> "index_name"])

Elasticsearch_set_authentication(self) ==
    Put(self, "authentication",
        [type |-> "encoded_api_key", encoded_api_key |-> self["encoded_api_key"]])

ElasticsearchSettings(env) ==
    LET v == ValidateFields(env, ElasticsearchNames, ElasticsearchRequired,
                            ElasticsearchDefaults)
    IN  IF v.ok
        THEN Constructed(
                set_fields_mapping(
                  Elasticsearch_set_authentication(
                    Update(v.obj, [__class__ |-> "_ElasticsearchSettings",
                                   _type |-> "elasticsearch"]))))
        ELSE v

(* _PineconeSettings *)

PineconeNames ==
    Update([environment |-> <<"PINECONE_", "ENVIRONMENT">>,
            api_key     |-> <<"PINECONE_", "API_KEY">>,
            index_name  |-> <<"PINECONE_", "INDEX_NAME">>],
           RoleColumnNames("PINECONE_"))

PineconeRequired == {"environment", "api_key", "index_name"}

PineconeDefaults == Update(NarrowingDefaults, [query_type |-> "vector"])

PineconeExcluded == {"api_key"} \cup RoleColumns

Pinecone_set_authentication(self) ==
    Put(self, "authentication", [type |-> "api_key", api_key |-> self["api_key"]])

PineconeSettings(env) ==
    LET v == ValidateFields(env, PineconeNames, PineconeRequired, PineconeDefaults)
    IN  IF v.ok
        THEN Constructed(
                set_fields_mapping(
                  Pinecone_set_authentication(
                    Update(v.obj, [__class__ |-> "_PineconeSettings",
                                   _type |-> "pinecone"]))))
        ELSE v

(* _AzureMLIndexSettings: no authentication field and no validator for one *)

AzureMLIndexNames ==
    Update([name    |-> <<"AZURE_MLINDEX_", "NAME">>,
            version |-> <<"AZURE_MLINDEX_", "VERSION">>,
            project_resource_id |-> <<"", "AZURE_ML_PROJECT_RESOURCE_ID">>],
           RoleColumnNames("AZURE_MLINDEX_"))

AzureMLIndexRequired == {"name", "version", "project_resource_id"}

AzureMLIndexSettings(env) ==
    LET v == ValidateFields(env, AzureMLIndexNames, AzureMLIndexRequired, NarrowingDefaults)
    IN  IF v.ok
        THEN Constructed(
                set_fields_mapping(
                  Update(v.obj, [__class__ |-> "_AzureMLIndexSettings",
                                 _type |-> "azure_ml_index"])))
        ELSE v

(* _AzureSqlServerSettings: every field is optional *)

AzureSqlServerNames ==
    [connection_string |-> <<"AZURE_SQL_SERVER_", "CONNECTION_STRING">>,
     database_server   |-> <<"AZURE_SQL_SERVER_", "DATABASE_SERVER">>,
     database_name     |-> <<"AZURE_SQL_SERVER_", "DATABASE_NAME">>,
     port              |-> <<"AZURE_SQL_SERVER_", "PORT">>]

AzureSqlServerExcluded == {"connection_string"}

AzureSqlServer_construct_authentication(self) ==
    IF Has(self, "connection_string")
    THEN Put(self, "authentication",
             [type |-> "connection_string",
              connection_string |-> self["connection_string"]])
    ELSE IF Has(self, "database_server") /\ Has(self, "database_name") /\ Has(self, "port")
    THEN Put(self, "authentication", [type |-> "system_assigned_managed_identity"])
    ELSE self

AzureSqlServerSettings(env) ==
    LET v == ValidateFields(env, AzureSqlServerNames, {}, Empty)
    IN  IF v.ok
        THEN Constructed(
                AzureSqlServer_construct_authentication(
                  Update(v.obj, [__class__ |-> "_AzureSqlServerSettings",
                                 _type |-> "azure_sql_server"])))
        ELSE v

(* _MongoDbSettings *)

MongoDbNames ==
    Update([endpoint        |-> <<"MONGODB_", "ENDPOINT">>,
            username        |-> <<"MONGODB_", "USERNAME">>,
            password        |-> <<"MONGODB_", "PASSWORD">>,
            database_name   |-> <<"MONGODB_", "DATABASE_NAME">>,
            collection_name |-> <<"MONGODB_", "COLLECTION_NAME">>,
            app_name        |-> <<"MONGODB_", "APP_NAME">>,
            index_name      |-> <<"MONGODB_", "INDEX_NAME">>],
           RoleColumnNames("MONGODB_"))

MongoDbRequired ==
    {"endpoint", "username", "password", "database_name", "collection_name",
     "app_name", "index_name"}

MongoDbDefaults == Update(NarrowingDefaults, [query_type |-> "vector"])

MongoDbExcluded == {"username", "password"} \cup RoleColumns

MongoDb_construct_authentication(self) ==
    Put(self, "authentication",
        [type |-> "username_and_password",
         username |-> self["username"], password |-> self["password"]])

MongoDbSettings(env) ==
    LET v == ValidateFields(env, MongoDbNames, MongoDbRequired, MongoDbDefaults)
    IN  IF v.ok
        THEN Constructed(
                MongoDb_construct_authentication(
                  set_fields_mapping(
                    Update(v.obj, [__class__ |-> "_MongoDbSettings",
                                   _type |-> "mongo_db"]))))
        ELSE v

-----------------------------------------------------------------------------
(* _AppSettings *)

DatasourceTypes ==
    {"AzureCognitiveSearch", "AzureCosmosDB", "Elasticsearch", "Pinecone",
     "AzureMLIndex", "AzureSqlServer", "MongoDB"}

set_promptflow_settings(self, env) ==
    LET made == PromptflowSettings(env)
    IN  IF made.ok THEN Put(self, "promptflow", made.obj) ELSE Del(self, "promptflow")

\* set_chat_history_settings whose except clause also drops the Promptflow group
set_chat_history_settings_clearing(self, env) ==
    LET made == ChatHistorySettings(env)
    IN  IF made.ok THEN Put(self, "chat_history", made.obj)
        ELSE Del(Del(self, "chat_history"), "promptflow")

set_chat_history_settings(self, env) ==
    LET made == ChatHistorySettings(env)
    IN  IF made.ok THEN Put(self, "chat_history", made.obj) ELSE Del(self, "chat_history")

\* SelectedDatasource with the Elasticsearch and Pinecone branches constructing
\* each other's class
SelectedDatasource_swapped(datasource_type, env) ==
    CASE datasource_type = Some("AzureCognitiveSearch") -> Some(AzureSearchSettings(env))
      [] datasource_type = Some("AzureCosmosDB") -> Some(AzureCosmosDbMongoVcoreSettings(env))
      [] datasource_type = Some("Elasticsearch") -> Some(PineconeSettings(env))
      [] datasource_type = Some("Pinecone") -> Some(ElasticsearchSettings(env))
      [] datasource_type = Some("AzureMLIndex") -> Some(AzureMLIndexSettings(env))
      [] datasource_type = Some("AzureSqlServer") -> Some(AzureSqlServerSettings(env))
      [] datasource_type = Some("MongoDB") -> Some(MongoDbSettings(env))
      [] OTHER -> None

\* SelectedDatasource matching the managed-search discriminator without regard
\* to case
SelectedDatasource_caseless(datasource_type, env) ==
    CASE datasource_type \in {Some("AzureCognitiveSearch"), Some("azurecognitivesearch")} ->
              Some(AzureSearchSettings(env))
      [] datasource_type = Some("AzureCosmosDB") -> Some(AzureCosmosDbMongoVcoreSettings(env))
      [] datasource_type = Some("Elasticsearch") -> Some(ElasticsearchSettings(env))
      [] datasource_type = Some("Pinecone") -> Some(PineconeSettings(env))
      [] datasource_type = Some("AzureMLIndex") -> Some(AzureMLIndexSettings(env))
      [] datasource_type = Some("AzureSqlServer") -> Some(AzureSqlServerSettings(env))
      [] datasource_type = Some("MongoDB") -> Some(MongoDbSettings(env))
      [] OTHER -> None

\* the variant the discriminator selects, constructed; None when it selects none
SelectedDatasource(datasource_type, env) ==
    CASE datasource_type = Some("AzureCognitiveSearch") -> Some(AzureSearchSettings(env))
      [] datasource_type = Some("AzureCosmosDB") -> Some(AzureCosmosDbMongoVcoreSettings(env))
      [] datasource_type = Some("Elasticsearch") -> Some(ElasticsearchSettings(env))
      [] datasource_type = Some("Pinecone") -> Some(PineconeSettings(env))
      [] datasource_type = Some("AzureMLIndex") -> Some(AzureMLIndexSettings(env))
      [] datasource_type = Some("AzureSqlServer") -> Some(AzureSqlServerSettings(env))
      [] datasource_type = Some("MongoDB") -> Some(MongoDbSettings(env))
      [] OTHER -> None

\* set_datasource_settings without the except clause
set_datasource_settings_uncaught(self, env) ==
    LET base == self["base_settings"]
        datasource_type ==
            IF Has(base, "datasource_type") THEN Some(base["datasource_type"]) ELSE None
        made == SelectedDatasource(datasource_type, env)
    IN  IF made = None THEN Constructed(Del(self, "datasource"))
        ELSE IF made[1].ok THEN Constructed(Put(self, "datasource", made[1].obj))
        ELSE made[1]

\* the try block assigns self.datasource when the constructor returns; a
\* ValidationError is caught and logged, which leaves self.datasource as it was;
\* any other exception leaves the validator
set_datasource_settings(self, env) ==
    LET base == self["base_settings"]
        datasource_type ==
            IF Has(base, "datasource_type") THEN Some(base["datasource_type"]) ELSE None
        made == SelectedDatasource(datasource_type, env)
    IN  IF made = None THEN Constructed(Del(self, "datasource"))
        ELSE IF made[1].ok THEN Constructed(Put(self, "datasource", made[1].obj))
        ELSE IF made[1].error = "ValidationError" THEN Constructed(self)
        ELSE made[1]

\* the class body constructs the four groups as field defaults, then the
\* after-validators run in the order of definition
AppSettings(env) ==
    LET base == BaseSettings(env)
        azure_openai == AzureOpenAISettings(env)
        search == SearchCommonSettings(env)
        ui == UiSettings(env)
    IN  IF ~azure_openai.ok THEN azure_openai
        ELSE set_datasource_settings(
               set_chat_history_settings(
                 set_promptflow_settings(
                   [base_settings |-> base.obj, azure_openai |-> azure_openai.obj,
                    search |-> search.obj, ui |-> ui.obj],
                   env),
                 env),
               env)

-----------------------------------------------------------------------------
(* construct_payload_configuration *)

TokenHeader == "X-MS-TOKEN-AAD-ACCESS-TOKEN"

\* backend.utils.generateFilterString: the filter expression of a token
generateFilterString(user_token) == <<"groups of", user_token>>

_set_filter_string(self, request) ==
    IF Has(self, "permitted_groups_column")
    THEN LET user_token == IF Has(request.headers, TokenHeader)
                           THEN request.headers[TokenHeader] ELSE ""
         IN  IF user_token = "" THEN Raises("ValueError")
             ELSE Returned(Some(generateFilterString(user_token)))
    ELSE Returned(None)

\* the filter step resetting self.filter before it asks for the new one
AzureSearch_filter_step_resetting(self, kwargs) ==
    IF Has(kwargs, "request") /\ Has(self, "permitted_groups_column")
    THEN LET r == _set_filter_string(self, kwargs["request"])
         IN  IF r.raised
             THEN [raised |-> TRUE, error |-> r.error, self |-> Del(self, "filter")]
             ELSE [raised |-> FALSE, self |-> Assign(self, "filter", r.value)]
    ELSE [raised |-> FALSE, self |-> self]

\* lines 714-716: the instance after them, and whether they raised.  The
\* assignment to self.filter happens only when _set_filter_string returns.
AzureSearch_filter_step(self, kwargs) ==
    IF Has(kwargs, "request") /\ Has(self, "permitted_groups_column")
    THEN LET r == _set_filter_string(self, kwargs["request"])
         IN  IF r.raised THEN [raised |-> TRUE, error |-> r.error, self |-> self]
             ELSE [raised |-> FALSE, self |-> Assign(self, "filter", r.value)]
    ELSE [raised |-> FALSE, self |-> self]

\* the embedding step asking the Model Settings first and falling back to the
\* local model id
embedding_step_shared_first(self, settings) ==
    IF extract_embedding_dependency(settings["azure_openai"]) # None
    THEN Assign(self, "embedding_dependency",
                extract_embedding_dependency(settings["azure_openai"]))
    ELSE IF self["__class__"] = "_ElasticsearchSettings" /\ Has(self, "embedding_model_id")
    THEN Put(self, "embedding_dependency",
             [type |-> "model_id", model_id |-> self["embedding_model_id"]])
    ELSE Del(self, "embedding_dependency")

\* the embedding step clearing a dependency an earlier call has set
embedding_step_toggling(self, settings) ==
    IF Has(self, "embedding_dependency") THEN Del(self, "embedding_dependency")
    ELSE IF self["__class__"] = "_ElasticsearchSettings" /\ Has(self, "embedding_model_id")
    THEN Put(self, "embedding_dependency",
             [type |-> "model_id", model_id |-> self["embedding_model_id"]])
    ELSE Assign(self, "embedding_dependency",
                extract_embedding_dependency(settings["azure_openai"]))

\* the assignment to self.embedding_dependency of each class that has one
embedding_step(self, settings) ==
    IF self["__class__"] = "_ElasticsearchSettings" /\ Has(self, "embedding_model_id")
    THEN Put(self, "embedding_dependency",
             [type |-> "model_id", model_id |-> self["embedding_model_id"]])
    ELSE Assign(self, "embedding_dependency",
                extract_embedding_dependency(settings["azure_openai"]))

HasEmbeddingStep(self) ==
    self["__class__"] \notin {"_AzureMLIndexSettings", "_AzureSqlServerSettings"}

ExcludedOf(self) ==
    CASE self["__class__"] = "_AzureSearchSettings" -> AzureSearchExcluded
      [] self["__class__"] = "_AzureCosmosDbMongoVcoreSettings" -> CosmosExcluded
      [] self["__class__"] = "_ElasticsearchSettings" -> ElasticsearchExcluded
      [] self["__class__"] = "_PineconeSettings" -> PineconeExcluded
      [] self["__class__"] = "_AzureMLIndexSettings" -> RoleColumns
      [] self["__class__"] = "_AzureSqlServerSettings" -> AzureSqlServerExcluded
      [] self["__class__"] = "_MongoDbSettings" -> MongoDbExcluded

AliasesOf(self) ==
    CASE self["__class__"] = "_AzureSearchSettings" -> AzureSearchAliases
      [] self["__class__"] = "_AzureCosmosDbMongoVcoreSettings" -> CosmosAliases
      [] self["__class__"] = "_ElasticsearchSettings" -> ElasticsearchAliases
      [] self["__class__"] = "_AzureSqlServerSettings" -> Empty
      [] OTHER -> CommonAliases

\* the dump of the instance, updated with the dump of the Search settings in
\* every class but _AzureSqlServerSettings, and the private type tag
payload_step(self, settings) ==
    LET parameters == model_dump(self, ExcludedOf(self), AliasesOf(self))
    IN  [type |-> self["_type"],
         parameters |-> IF self["__class__"] = "_AzureSqlServerSettings"
                        THEN parameters
                        ELSE Update(parameters, SearchCommonDump(settings["search"]))]

-----------------------------------------------------------------------------
(* The process environment.  Every variable that is set has the sample     *)
(* value of its name.                                                      *)

EnvOf(variables) == [v \in variables |-> v[2]]

WithDatasourceType(env, choice) ==
    IF choice = None THEN env ELSE Put(env, <<"", "DATASOURCE_TYPE">>, choice[1])

NamesOf(datasource_type) ==
    CASE datasource_type = "AzureCognitiveSearch" -> AzureSearchNames
      [] datasource_type = "AzureCosmosDB" -> CosmosNames
      [] datasource_type = "Elasticsearch" -> ElasticsearchNames
      [] datasource_type = "Pinecone" -> PineconeNames
      [] datasource_type = "AzureMLIndex" -> AzureMLIndexNames
      [] datasource_type = "AzureSqlServer" -> AzureSqlServerNames
      [] datasource_type = "MongoDB" -> MongoDbNames

RequiredOf(datasource_type) ==
    CASE datasource_type = "AzureCognitiveSearch" -> AzureSearchRequired
      [] datasource_type = "AzureCosmosDB" -> CosmosRequired
      [] datasource_type = "Elasticsearch" -> ElasticsearchRequired
      [] datasource_type = "Pinecone" -> PineconeRequired
      [] datasource_type = "AzureMLIndex" -> AzureMLIndexRequired
      [] datasource_type = "AzureSqlServer" -> {}
      [] datasource_type = "MongoDB" -> MongoDbRequired

VariablesOf(datasource_type, fields) ==
    {NamesOf(datasource_type)[f] : f \in fields \cap DOMAIN NamesOf(datasource_type)}

\* the sets of required fields that lack at most MaxMissing of them
RequiredChoices(datasource_type) ==
    {R \in SUBSET RequiredOf(datasource_type) :
        Cardinality(RequiredOf(datasource_type) \ R) <= MaxMissing}

OptionalOf(datasource_type) ==
    (DOMAIN NamesOf(datasource_type) \ RequiredOf(datasource_type)) \ RoleColumns

\* the Model Settings variables every environment sets
ModelVariables ==
    {<<"AZURE_OPENAI_", "MODEL">>, <<"AZURE_OPENAI_", "ENDPOINT">>,
     <<"AZURE_OPENAI_", "EMBEDDING_ENDPOINT">>}

\* environments of a recognized backend: required fields, optional fields and
\* role columns drawn from the given choices
BackendEnvironments(datasource_type, roleChoices) ==
    {WithDatasourceType(
        EnvOf(ModelVariables \cup VariablesOf(datasource_type, R \cup O \cup roles)),
        Some(datasource_type)) :
        R \in RequiredChoices(datasource_type),
        O \in SUBSET OptionalOf(datasource_type),
        roles \in roleChoices}

\* environments whose discriminator is absent or unrecognized, with and without
\* the variables of a backend
UngroundedEnvironments ==
    {WithDatasourceType(EnvOf(ModelVariables \cup V), choice) :
        V \in {{}, VariablesOf("AzureCognitiveSearch", AzureSearchRequired)},
        choice \in {None, Some("AzureSearch"), Some("azurecognitivesearch")}}

\* environments of every backend with its required fields and each of the
\* 2^5 combinations of role columns, and the ungrounded ones
FieldMappingEnvironments ==
    UngroundedEnvironments
    \cup {WithDatasourceType(
            EnvOf(ModelVariables \cup VariablesOf(t, RequiredOf(t) \cup roles)), Some(t)) :
            t \in DatasourceTypes, roles \in SUBSET RoleColumns}

StartupEnvironments ==
    UngroundedEnvironments
    \cup UNION {BackendEnvironments(t, {{}}) : t \in DatasourceTypes}

\* the Model Settings variables that decide the embedding dependency
EmbeddingVariables ==
    {<<"AZURE_OPENAI_", "EMBEDDING_NAME">>, <<"AZURE_OPENAI_", "EMBEDDING_ENDPOINT">>,
     <<"AZURE_OPENAI_", "EMBEDDING_KEY">>}

SearchVariables ==
    {<<"SEARCH_", "MAX_SEARCH_QUERIES">>, <<"SEARCH_", "VECTORIZATION_DIMENSIONS">>}

\* environments of one backend with its required fields, with none or all of
\* its optional fields, with none or all of its role columns and the Search
\* variables, and with every combination of the embedding variables
PayloadEnvironmentsOf(datasource_type) ==
    {WithDatasourceType(
        EnvOf({<<"AZURE_OPENAI_", "MODEL">>, <<"AZURE_OPENAI_", "ENDPOINT">>}
              \cup E \cup X
              \cup VariablesOf(datasource_type, RequiredOf(datasource_type) \cup O)),
        Some(datasource_type)) :
        O \in {{}, OptionalOf(datasource_type)},
        X \in {{}, SearchVariables \cup VariablesOf(datasource_type, RoleColumns)},
        E \in SUBSET EmbeddingVariables}

PayloadEnvironments ==
    UngroundedEnvironments \cup UNION {PayloadEnvironmentsOf(t) : t \in DatasourceTypes}

ChatHistoryVariables == {ChatHistoryNames[f] : f \in DOMAIN ChatHistoryNames}

PromptflowVariables == {PromptflowNames[f] : f \in DOMAIN PromptflowNames}

\* a discriminator and the backend variables beside it: no backend, a complete
\* one, one that lacks a required field
DatasourceChoices ==
    {[type |-> None, variables |-> {}],
     [type |-> Some("AzureCognitiveSearch"),
      variables |-> VariablesOf("AzureCognitiveSearch", AzureSearchRequired)],
     [type |-> Some("Pinecone"),
      variables |-> VariablesOf("Pinecone", {"environment", "index_name"})]}

\* every combination of the Chat-History and Promptflow variables beside each
\* datasource choice
GroupEnvironments ==
    {WithDatasourceType(EnvOf(ModelVariables \cup H \cup P \cup D.variables), D.type) :
        H \in SUBSET ChatHistoryVariables,
        P \in SUBSET PromptflowVariables,
        D \in DatasourceChoices}

MalformedJson == "{not json"

JsonTexts == {MalformedJson} \cup WellFormedJson

JsonVariables == {<<"AZURE_OPENAI_", "TOOLS">>, <<"AZURE_OPENAI_", "LOGIT_BIAS">>}

\* the JSON-encoded variables that are set, each with one of the texts
JsonChoices == UNION {[V -> JsonTexts] : V \in SUBSET JsonVariables}

\* Model Settings with and without endpoint and resource, with each choice of
\* the JSON-encoded variables, without a backend and with the search engine
ModelEnvironments ==
    {Update(WithDatasourceType(
                EnvOf({<<"AZURE_OPENAI_", "MODEL">>,
                       <<"AZURE_OPENAI_", "EMBEDDING_ENDPOINT">>} \cup A \cup V),
                choice),
            J) :
        A \in SUBSET {<<"AZURE_OPENAI_", "ENDPOINT">>, <<"AZURE_OPENAI_", "RESOURCE">>},
        J \in JsonChoices,
        V \in {VariablesOf("Elasticsearch", ElasticsearchRequired)},
        choice \in {None, Some("Elasticsearch")}}

-----------------------------------------------------------------------------
(* Requests *)

TokenNames == <<"token-a", "token-b", "token-c", "token-d">>

Tokens == {TokenNames[i] : i \in 1..NumTokens}

\* a request without the token header, with an empty one, with a token
Requests ==
    {[headers |-> Empty], [headers |-> [h \in {TokenHeader} |-> ""]]}
    \cup {[headers |-> [h \in {TokenHeader} |-> t]] : t \in Tokens}

\* the keyword arguments of a call: none, or request=<a request>
KwargsChoices == {Empty} \cup {[request |-> r] : r \in Requests}

Callers == {"call-1", "call-2"}

\* overlapped and failed_before are history: the callers whose calls were in
\* flight at some moment of this caller's last call, and whether a call of this
\* caller ever raised
NewCall ==
    [pc |-> "idle", kwargs |-> Empty, outcome |-> [kind |-> "new"],
     overlapped |-> {}, failed_before |-> FALSE]

-----------------------------------------------------------------------------
(* State machine.  phase: "boot" before the module is imported, "up" after *)
(* _AppSettings() returned, "failed" when it raised.  app is the           *)
(* app_settings object.  calls[c] is one in-flight request: where it is in *)
(* construct_payload_configuration, its keyword arguments, and the outcome *)
(* of its last call.  A call takes one step per statement that writes the  *)
(* shared instance, so calls of different requests interleave.             *)

TypeOK ==
    /\ phase \in {"boot", "up", "failed"}
    /\ DOMAIN calls = Callers
    /\ \A c \in Callers : calls[c].pc \in {"idle", "embedding", "dump"}

InitWith(environments) ==
    /\ environ \in environments
    /\ phase = "boot"
    /\ app = Empty
    /\ calls = [c \in Callers |-> NewCall]

Init == InitWith(StartupEnvironments)

\* app_settings = _AppSettings()
Startup ==
    /\ phase = "boot"
    /\ LET made == AppSettings(environ)
       IN  IF made.ok
           THEN phase' = "up" /\ app' = made.obj
           ELSE phase' = "failed" /\ app' = Empty
    /\ UNCHANGED <<environ, calls>>

\* a caller without an active datasource: there is nothing to construct
UngroundedCall(c, kwargs) ==
    /\ phase = "up"
    /\ ~Has(app, "datasource")
    /\ calls[c].pc = "idle"
    /\ calls' = [calls EXCEPT ![c] = [@ EXCEPT !.kwargs = kwargs,
                                                !.outcome = [kind |-> "none"]]]
    /\ UNCHANGED <<environ, phase, app>>

InFlight(c) == {d \in Callers \ {c} : calls[d].pc # "idle"}

\* construct_payload_configuration(**kwargs) up to its first write
BeginCall(c, kwargs) ==
    /\ phase = "up"
    /\ Has(app, "datasource")
    /\ calls[c].pc = "idle"
    /\ LET self == app["datasource"]
           r == IF self["__class__"] = "_AzureSearchSettings"
                THEN AzureSearch_filter_step(self, kwargs)
                ELSE [raised |-> FALSE, self |-> self]
           mine == IF r.raised
                   THEN [pc |-> "idle", kwargs |-> kwargs,
                         outcome |-> [kind |-> "raised", error |-> r.error],
                         overlapped |-> InFlight(c), failed_before |-> TRUE]
                   ELSE [pc |-> IF HasEmbeddingStep(self) THEN "embedding" ELSE "dump",
                         kwargs |-> kwargs, outcome |-> [kind |-> "running"],
                         overlapped |-> InFlight(c),
                         failed_before |-> calls[c].failed_before]
       IN  /\ calls' = [d \in Callers |->
                          IF d = c THEN mine
                          ELSE IF d \in InFlight(c)
                          THEN [calls[d] EXCEPT !.overlapped = @ \cup {c}]
                          ELSE calls[d]]
           /\ app' = Put(app, "datasource", r.self)
    /\ UNCHANGED <<environ, phase>>

\* the embedding step also storing the resolved descriptor on the Model Settings
\* of the root
ResolveEmbedding_caching(c) ==
    /\ calls[c].pc = "embedding"
    /\ LET self == embedding_step(app["datasource"], app)
       IN  app' = [Put(app, "datasource", self) EXCEPT
                      !["azure_openai"] =
                          Assign(@, "embedding_dependency",
                                 IF Has(self, "embedding_dependency")
                                 THEN Some(self["embedding_dependency"]) ELSE None)]
    /\ calls' = [calls EXCEPT ![c].pc = "dump"]
    /\ UNCHANGED <<environ, phase>>

\* self.embedding_dependency = ...
ResolveEmbedding(c) ==
    /\ calls[c].pc = "embedding"
    /\ app' = Put(app, "datasource", embedding_step(app["datasource"], app))
    /\ calls' = [calls EXCEPT ![c].pc = "dump"]
    /\ UNCHANGED <<environ, phase>>

\* the dump and the return.  The outcome also records the value self.filter had
\* when the instance was dumped.
ReturnPayload(c) ==
    /\ calls[c].pc = "dump"
    /\ LET self == app["datasource"]
       IN  calls' = [calls EXCEPT ![c] =
                [@ EXCEPT !.pc = "idle",
                          !.outcome =
                             [kind |-> "payload",
                              payload |-> payload_step(self, app),
                              filter_in_effect |->
                                  IF Has(self, "filter") THEN Some(self["filter"]) ELSE None]]]
    /\ UNCHANGED <<environ, phase, app>>

Next ==
    \/ Startup
    \/ \E c \in Callers, kwargs \in KwargsChoices : UngroundedCall(c, kwargs)
    \/ \E c \in Callers, kwargs \in KwargsChoices : BeginCall(c, kwargs)
    \/ \E c \in Callers : ResolveEmbedding(c)
    \/ \E c \in Callers : ReturnPayload(c)

Spec == Init /\ [][Next]_vars

\* the same program started from the role-column environments
InitFields == InitWith(FieldMappingEnvironments)

SpecFields == InitFields /\ [][Next]_vars

\* the same program started from the payload environments
InitPayload == InitWith(PayloadEnvironments)

SpecPayload == InitPayload /\ [][Next]_vars

\* the same program started from the environments of the optional groups
InitGroups == InitWith(GroupEnvironments)

SpecGroups == InitGroups /\ [][Next]_vars

\* the same program started from the Model Settings environments
InitModel == InitWith(ModelEnvironments)

SpecModel == InitModel /\ [][Next]_vars

-----------------------------------------------------------------------------
(* Vocabulary of the properties *)

EnvDatasourceType ==
    IF <<"", "DATASOURCE_TYPE">> \in DOMAIN environ
    THEN Some(environ[<<"", "DATASOURCE_TYPE">>]) ELSE None

Recognized == EnvDatasourceType # None /\ EnvDatasourceType[1] \in DatasourceTypes

IsSet(datasource_type, field) == NamesOf(datasource_type)[field] \in DOMAIN environ

\* every field of the backend that has no default has a value
MinimalFieldsSupplied(datasource_type) ==
    \A f \in RequiredOf(datasource_type) : IsSet(datasource_type, f)

ClassOfType ==
    [AzureCognitiveSearch |-> "_AzureSearchSettings",
     AzureCosmosDB  |-> "_AzureCosmosDbMongoVcoreSettings",
     Elasticsearch  |-> "_ElasticsearchSettings",
     Pinecone       |-> "_PineconeSettings",
     AzureMLIndex   |-> "_AzureMLIndexSettings",
     AzureSqlServer |-> "_AzureSqlServerSettings",
     MongoDB        |-> "_MongoDbSettings"]

TagOfType ==
    [AzureCognitiveSearch |-> "azure_search",
     AzureCosmosDB  |-> "azure_cosmosdb",
     Elasticsearch  |-> "elasticsearch",
     Pinecone       |-> "pinecone",
     AzureMLIndex   |-> "azure_ml_index",
     AzureSqlServer |-> "azure_sql_server",
     MongoDB        |-> "mongo_db"]

Started == phase # "boot"

ActiveDatasource == IF Has(app, "datasource") THEN Some(app["datasource"]) ELSE None

ReturnedPayload(c) == calls[c].outcome.kind = "payload"

-----------------------------------------------------------------------------
(* C1: for each of the seven discriminator values, once the root is        *)
(* constructed from an environment that supplies the backend's required    *)
(* fields, the active datasource is an instance of that backend's class,   *)
(* and every payload a call has returned carries that backend's type tag.  *)
C1_BackendAndTag ==
    \A t \in DatasourceTypes :
        (Started /\ EnvDatasourceType = Some(t) /\ MinimalFieldsSupplied(t))
        => /\ phase = "up"
           /\ ActiveDatasource # None
           /\ ActiveDatasource[1]["__class__"] = ClassOfType[t]
           /\ \A c \in Callers :
                 ReturnedPayload(c) => calls[c].outcome.payload.type = TagOfType[t]

\* a payload of the search-engine backend came back with its tag
C1_Witness ==
    /\ EnvDatasourceType = Some("Elasticsearch")
    /\ MinimalFieldsSupplied("Elasticsearch")
    /\ \E c \in Callers :
          ReturnedPayload(c) /\ calls[c].outcome.payload.type = "elasticsearch"

(* C2: when the discriminator is absent or not one of the seven values,    *)
(* root construction completes, the active datasource is none, and in      *)
(* every later state no call has produced a payload or an exception: the   *)
(* only outcome of a call is none.                                         *)
C2_UngroundedWhenUnrecognized ==
    (Started /\ ~Recognized)
    => /\ phase = "up"
       /\ ActiveDatasource = None
       /\ \A c \in Callers : calls[c].pc = "idle" /\ calls[c].outcome.kind \in {"new", "none"}

\* an unrecognized discriminator beside a fully configured backend, and a call
\* that came back with none
C2_Witness ==
    /\ EnvDatasourceType = Some("azurecognitivesearch")
    /\ MinimalFieldsSupplied("AzureCognitiveSearch")
    /\ phase = "up"
    /\ \E c \in Callers : calls[c].outcome.kind = "none"

(* C3: when the discriminator names a backend and a required field of that *)
(* backend is missing, root construction still completes with the Model,   *)
(* Search and UI settings in place, and the active datasource is none.     *)
C3_DegradeOnInvalidBackend ==
    \A t \in DatasourceTypes :
        (Started /\ EnvDatasourceType = Some(t) /\ ~MinimalFieldsSupplied(t))
        => /\ phase = "up"
           /\ ActiveDatasource = None
           /\ {"azure_openai", "search", "ui"} \subseteq DOMAIN app
           /\ Has(app["azure_openai"], "endpoint")

\* the managed-search backend without its index, after startup, serving a call
C3_Witness ==
    /\ EnvDatasourceType = Some("AzureCognitiveSearch")
    /\ IsSet("AzureCognitiveSearch", "service")
    /\ ~IsSet("AzureCognitiveSearch", "index")
    /\ phase = "up"
    /\ \E c \in Callers : calls[c].outcome.kind = "none"

-----------------------------------------------------------------------------
(* Requests and filters *)

ColumnConfigured ==
    ActiveDatasource # None /\ Has(ActiveDatasource[1], "permitted_groups_column")

\* the token a call was given: "" without a request, a header or a value
RequestToken(kwargs) ==
    IF Has(kwargs, "request") /\ Has(kwargs["request"].headers, TokenHeader)
    THEN kwargs["request"].headers[TokenHeader] ELSE ""

UsableToken(kwargs) == RequestToken(kwargs) # ""

OwnFilter(c) == generateFilterString(RequestToken(calls[c].kwargs))

\* the last calls of c and d were in flight at the same time
Concurrent(c, d) == c # d /\ d \in calls[c].overlapped /\ c \in calls[d].overlapped

Parameters(c) == calls[c].outcome.payload.parameters

(* C4: two calls in flight at the same time on a variant with an           *)
(* access-control column, each with its own token, return payloads whose   *)
(* filter values differ, each the filter of the call's own token, and each *)
(* call has only its own filter in effect.                                 *)
C4_NoCrossTalk ==
    \A c, d \in Callers :
        (/\ ColumnConfigured
         /\ Concurrent(c, d)
         /\ ReturnedPayload(c) /\ ReturnedPayload(d)
         /\ UsableToken(calls[c].kwargs) /\ UsableToken(calls[d].kwargs)
         /\ RequestToken(calls[c].kwargs) # RequestToken(calls[d].kwargs))
        => /\ Has(Parameters(c), "filter")
           /\ Parameters(c)["filter"] = OwnFilter(c)
           /\ Has(Parameters(d), "filter")
           /\ Parameters(d)["filter"] # Parameters(c)["filter"]
           /\ calls[c].outcome.filter_in_effect = Some(OwnFilter(c))

(* C5: in a sequence of calls, none in flight with another, the filter in  *)
(* effect for a call is the one of the call's own request context: the     *)
(* filter of its token when the column is configured and the token usable, *)
(* none otherwise, whatever earlier calls computed.                        *)
C5_FilterRecomputedEachCall ==
    \A c \in Callers :
        (ReturnedPayload(c) /\ calls[c].overlapped = {})
        => calls[c].outcome.filter_in_effect =
              IF ColumnConfigured /\ UsableToken(calls[c].kwargs)
              THEN Some(OwnFilter(c)) ELSE None

(* C6: on a variant with the access-control column, a call without a       *)
(* usable token (no request, no header, an empty header) raises the        *)
(* missing-token error; with the column unset such a call returns a        *)
(* payload without a filter key.                                           *)
C6_MissingTokenRaises ==
    \A c \in Callers :
        (ActiveDatasource # None /\ ~UsableToken(calls[c].kwargs)
         /\ calls[c].outcome.kind # "new")
        => IF ColumnConfigured
           THEN calls[c].outcome.kind = "raised" /\ calls[c].outcome.error = "ValueError"
           ELSE /\ calls[c].outcome.kind \in {"running", "payload"}
                /\ ReturnedPayload(c) => ~Has(Parameters(c), "filter")

(* C7: the step in which a call raises the missing-token error changes     *)
(* nothing but that caller's outcome (the root, the active datasource and  *)
(* every field of the variant are as before); and once a caller's call has *)
(* raised, the datasource stays active and a call of that caller with a    *)
(* usable token does not raise.                                            *)
C7_FailureConfinedToCall ==
    /\ [][\A c \in Callers :
            (calls'[c].outcome.kind = "raised" /\ calls'[c] # calls[c])
            => /\ app' = app /\ phase' = phase
               /\ \A d \in Callers \ {c} : calls'[d].outcome = calls[d].outcome]_vars
    /\ [](\A c \in Callers :
            calls[c].failed_before
            => /\ phase = "up" /\ ActiveDatasource # None
               /\ UsableToken(calls[c].kwargs)
                     => calls[c].outcome.kind \in {"running", "payload"})

\* a caller whose earlier call raised has a payload from a call with a token,
\* on a variant whose filter and embedding dependency are set
C7_Witness ==
    /\ ColumnConfigured
    /\ Has(ActiveDatasource[1], "filter")
    /\ \E c \in Callers :
          /\ calls[c].failed_before
          /\ UsableToken(calls[c].kwargs)
          /\ ReturnedPayload(c)

-----------------------------------------------------------------------------
(* Authentication *)

\* the explicit secret of each backend that has one, and the descriptor kind it
\* stands for
SecretFields ==
    [AzureCognitiveSearch |-> {"key"},
     AzureCosmosDB  |-> {"connection_string"},
     Elasticsearch  |-> {"encoded_api_key"},
     Pinecone       |-> {"api_key"},
     AzureSqlServer |-> {"connection_string"},
     MongoDB        |-> {"username", "password"}]

SecretKind ==
    [AzureCognitiveSearch |-> "api_key",
     AzureCosmosDB  |-> "connection_string",
     Elasticsearch  |-> "encoded_api_key",
     Pinecone       |-> "api_key",
     AzureSqlServer |-> "connection_string",
     MongoDB        |-> "username_and_password"]

AmbientIdentityBackends == {"AzureCognitiveSearch", "AzureSqlServer"}

AmbientIdentity == "system_assigned_managed_identity"

AuthenticationKinds ==
    {"api_key", "connection_string", "encoded_api_key", "username_and_password",
     AmbientIdentity}

SecretSet(t) == \A f \in SecretFields[t] : IsSet(t, f)

OtherRequiredSupplied(t) == \A f \in RequiredOf(t) \ SecretFields[t] : IsSet(t, f)

AuthenticationKind(self) ==
    IF Has(self, "authentication") THEN Some(self["authentication"].type) ELSE None

(* C8: for every backend with a credential, once its other required fields *)
(* are supplied: a set secret or connection string decides the descriptor  *)
(* kind; with none set, managed search and the relational database resolve *)
(* to the ambient identity, and the other four backends fail construction. *)
C8_AuthenticationByPriority ==
    \A t \in DOMAIN SecretFields :
        (Started /\ EnvDatasourceType = Some(t) /\ OtherRequiredSupplied(t))
        => IF SecretSet(t)
           THEN /\ ActiveDatasource # None
                /\ AuthenticationKind(ActiveDatasource[1]) = Some(SecretKind[t])
           ELSE IF t \in AmbientIdentityBackends
           THEN /\ ActiveDatasource # None
                /\ AuthenticationKind(ActiveDatasource[1]) = Some(AmbientIdentity)
           ELSE ActiveDatasource = None

(* C9: every variant that construction accepted carries a resolved         *)
(* authentication descriptor, of one of the descriptor kinds.              *)
C9_AuthenticationAlwaysResolved ==
    (Started /\ ActiveDatasource # None)
    => /\ AuthenticationKind(ActiveDatasource[1]) # None
       /\ AuthenticationKind(ActiveDatasource[1])[1] \in AuthenticationKinds

-----------------------------------------------------------------------------
(* Field mapping *)

RoleKey ==
    [content_columns |-> "content_fields", title_column |-> "title_field",
     url_column |-> "url_field", filename_column |-> "filepath_field",
     vector_columns |-> "vector_fields"]

EmittedFieldsMapping(c) ==
    IF Has(Parameters(c), "fields_mapping") THEN Parameters(c)["fields_mapping"] ELSE Empty

(* C10: in every payload of a backend with role columns, the field-mapping *)
(* descriptor has an entry for exactly the roles whose column is set, and  *)
(* no entry is null.                                                       *)
C10_FieldsMappingOmitsUnset ==
    \A c \in Callers, t \in DatasourceTypes \ {"AzureSqlServer"} :
        (ReturnedPayload(c) /\ EnvDatasourceType = Some(t))
        => /\ DOMAIN EmittedFieldsMapping(c) = {RoleKey[r] : r \in {q \in RoleColumns : IsSet(t, q)}}
           /\ \A k \in DOMAIN EmittedFieldsMapping(c) : EmittedFieldsMapping(c)[k] # NULL


-----------------------------------------------------------------------------
(* Payload parameters *)

\* what the active variant emits of itself, and what the Search settings emit
VariantDump ==
    model_dump(ActiveDatasource[1], ExcludedOf(ActiveDatasource[1]),
               AliasesOf(ActiveDatasource[1]))

SearchDump == SearchCommonDump(app["search"])

(* C11: for every variant, the parameters of a returned payload are the    *)
(* variant's own emitted fields together with the non-null fields of the   *)
(* Search settings: every non-null Search field is a key of the            *)
(* parameters, with its value.                                             *)
C11_ParametersIncludeSearchSettings ==
    \A c \in Callers :
        ReturnedPayload(c)
        => /\ DOMAIN Parameters(c) = DOMAIN VariantDump \cup DOMAIN SearchDump
           /\ \A k \in DOMAIN SearchDump : Parameters(c)[k] = SearchDump[k]

(* C12: in every payload, the keys the variant emits and the keys the      *)
(* Search settings emit are disjoint, and every key the variant emits has  *)
(* the variant's value in the merged parameters: the merge overwrites no   *)
(* variant value.                                                          *)
C12_MergeKeepsVariantValues ==
    \A c \in Callers :
        ReturnedPayload(c)
        => /\ DOMAIN VariantDump \cap DOMAIN SearchDump = {}
           /\ \A k \in DOMAIN VariantDump :
                 Has(Parameters(c), k) /\ Parameters(c)[k] = VariantDump[k]

\* a payload that merged Search variables into a variant with narrowing fields
C12_Witness ==
    \E c \in Callers :
        /\ ReturnedPayload(c)
        /\ <<"SEARCH_", "MAX_SEARCH_QUERIES">> \in DOMAIN environ
        /\ Has(Parameters(c), "max_search_queries")
        /\ Has(Parameters(c), "strictness")

\* the fields the spec marks internal, and the renamed ones with their
\* external keys
InternalFields ==
    {"key", "api_key", "connection_string", "encoded_api_key", "username", "password",
     "service", "endpoint_suffix", "permitted_groups_column"} \cup RoleColumns

RenamedFields ==
    [top_k |-> "top_n_documents", enable_in_domain |-> "in_scope", index |-> "index_name"]

(* C13: in every payload of every variant no internal field is a key of    *)
(* the parameters, no renamed field is a key under its internal name, and  *)
(* every renamed field the variant has is there under its external key.    *)
C13_InternalFieldsNeverEmitted ==
    \A c \in Callers :
        ReturnedPayload(c)
        => /\ DOMAIN Parameters(c) \cap InternalFields = {}
           /\ DOMAIN Parameters(c) \cap DOMAIN RenamedFields = {}
           /\ \A f \in DOMAIN RenamedFields :
                 Has(ActiveDatasource[1], f)
                 => /\ Has(Parameters(c), RenamedFields[f])
                    /\ Parameters(c)[RenamedFields[f]] = ActiveDatasource[1][f]

\* a payload of the managed-search variant whose key, access-control column and
\* role columns are all set
C13_Witness ==
    /\ EnvDatasourceType = Some("AzureCognitiveSearch")
    /\ IsSet("AzureCognitiveSearch", "key")
    /\ IsSet("AzureCognitiveSearch", "permitted_groups_column")
    /\ IsSet("AzureCognitiveSearch", "title_column")
    /\ \E c \in Callers : ReturnedPayload(c) /\ Has(Parameters(c), "index_name")

-----------------------------------------------------------------------------
(* Embedding dependency *)

EmittedEmbedding(c) ==
    IF Has(Parameters(c), "embedding_dependency")
    THEN Some(Parameters(c)["embedding_dependency"]) ELSE None

\* what the shared Model Settings resolve to
SharedEmbedding == extract_embedding_dependency(app["azure_openai"])

LocalModelId == <<"ELASTICSEARCH_", "EMBEDDING_MODEL_ID">>

(* C14: every payload of the search-engine variant has, when the local     *)
(* embedding model id is set, the model-id descriptor of that id, whatever *)
(* embedding name, endpoint or key the Model Settings have; and when it is *)
(* unset, what the Model Settings resolve to.                              *)
C14_LocalModelIdFirst ==
    \A c \in Callers :
        (ReturnedPayload(c) /\ EnvDatasourceType = Some("Elasticsearch"))
        => IF LocalModelId \in DOMAIN environ
           THEN EmittedEmbedding(c) =
                    Some([type |-> "model_id", model_id |-> environ[LocalModelId]])
           ELSE EmittedEmbedding(c) = SharedEmbedding

\* a payload with the model-id descriptor although the Model Settings have an
\* embedding name and an embedding endpoint
C14_Witness ==
    /\ EnvDatasourceType = Some("Elasticsearch")
    /\ LocalModelId \in DOMAIN environ
    /\ {<<"AZURE_OPENAI_", "EMBEDDING_NAME">>, <<"AZURE_OPENAI_", "EMBEDDING_ENDPOINT">>}
           \subseteq DOMAIN environ
    /\ \E c \in Callers :
          ReturnedPayload(c) /\ EmittedEmbedding(c) # None
          /\ EmittedEmbedding(c)[1].type = "model_id"

(* C15: a payload of the relational-database variant never has an          *)
(* embedding_dependency key; a payload of any other variant has what the   *)
(* Model Settings resolve to (the search-engine variant with a local model *)
(* id: the model-id descriptor).                                           *)
C15_OnlyRelationalSkipsEmbedding ==
    \A c \in Callers :
        ReturnedPayload(c)
        => IF EnvDatasourceType = Some("AzureSqlServer")
           THEN EmittedEmbedding(c) = None
           ELSE IF EnvDatasourceType = Some("Elasticsearch") /\ LocalModelId \in DOMAIN environ
           THEN EmittedEmbedding(c) # None /\ EmittedEmbedding(c)[1].type = "model_id"
           ELSE EmittedEmbedding(c) = SharedEmbedding

-----------------------------------------------------------------------------
(* Repeated calls *)

\* the payload of a first call on the variant as startup constructed it
FirstPayload ==
    LET fresh == AppSettings(environ).obj
        self == fresh["datasource"]
    IN  payload_step(IF HasEmbeddingStep(self) THEN embedding_step(self, fresh) ELSE self,
                     fresh)

(* C16: on a variant without the access-control column, every payload a    *)
(* call returns is the payload the first call on the freshly constructed   *)
(* variant returns: type and parameters are the same however many calls    *)
(* came before.                                                            *)
C16_PayloadIdempotent ==
    \A c \in Callers :
        (ReturnedPayload(c) /\ ~ColumnConfigured)
        => /\ calls[c].outcome.payload = FirstPayload
           /\ \A d \in Callers :
                 ReturnedPayload(d) => calls[d].outcome.payload = calls[c].outcome.payload

\* two calls in a row, neither in flight with the other, on a variant whose
\* calls write an embedding dependency
C16_Witness ==
    /\ EnvDatasourceType = Some("MongoDB")
    /\ <<"AZURE_OPENAI_", "EMBEDDING_NAME">> \in DOMAIN environ
    /\ \A c \in Callers :
          /\ ReturnedPayload(c) /\ calls[c].overlapped = {}
          /\ EmittedEmbedding(c) # None

-----------------------------------------------------------------------------
(* Optional groups *)

ChatHistoryRequired == {"database", "account", "conversations_container"}

PromptflowRequired == {"endpoint", "api_key"}

Supplied(names, required) == \A f \in required : names[f] \in DOMAIN environ

\* the variant as its constructor left it: without what calls write
AsConstructed(datasource) == Del(Del(datasource, "filter"), "embedding_dependency")

\* the root constructed from this environment with the missing required
\* variables of the two optional groups filled in
RootWithBothGroups ==
    AppSettings(Update(EnvOf({ChatHistoryNames[f] : f \in ChatHistoryRequired}
                             \cup {PromptflowNames[f] : f \in PromptflowRequired}),
                       environ)).obj

(* C17: whatever variables of the Chat-History and Promptflow groups are   *)
(* missing, root construction completes; each of the two groups is absent  *)
(* exactly when one of its own required fields is missing, and is          *)
(* otherwise what it is when both groups are supplied; the other groups    *)
(* and the datasource selection are what they are when both are supplied.  *)
C17_OptionalGroupsIndependent ==
    Started
    => /\ phase = "up"
       /\ Has(app, "chat_history") = Supplied(ChatHistoryNames, ChatHistoryRequired)
       /\ Has(app, "promptflow") = Supplied(PromptflowNames, PromptflowRequired)
       /\ DOMAIN app \ {"chat_history", "promptflow"}
             = DOMAIN RootWithBothGroups \ {"chat_history", "promptflow"}
       /\ \A k \in DOMAIN app \ {"datasource"} : app[k] = RootWithBothGroups[k]
       /\ Has(app, "datasource")
             => AsConstructed(app["datasource"])
                    = AsConstructed(RootWithBothGroups["datasource"])

\* Chat-History lacks a required field, Promptflow is supplied and present, and
\* the selected backend serves a call
C17_Witness ==
    /\ phase = "up"
    /\ ~Supplied(ChatHistoryNames, ChatHistoryRequired)
    /\ ~Has(app, "chat_history")
    /\ Has(app, "promptflow")
    /\ \E c \in Callers : ReturnedPayload(c)

-----------------------------------------------------------------------------
(* Model Settings *)

(* C18: once the root is constructed, an explicit endpoint is the endpoint *)
(* of the Model Settings; without one, a resource gives the endpoint       *)
(* https://<resource>.openai.azure.com; with neither, construction failed; *)
(* and Model Settings that were constructed have an endpoint.              *)
C18_EndpointDerivation ==
    Started
    => /\ IF <<"AZURE_OPENAI_", "ENDPOINT">> \in DOMAIN environ
          THEN /\ phase = "up"
               /\ app["azure_openai"]["endpoint"] = environ[<<"AZURE_OPENAI_", "ENDPOINT">>]
          ELSE IF <<"AZURE_OPENAI_", "RESOURCE">> \in DOMAIN environ
          THEN /\ phase = "up"
               /\ app["azure_openai"]["endpoint"]
                     = <<"https://", environ[<<"AZURE_OPENAI_", "RESOURCE">>],
                         ".openai.azure.com">>
          ELSE phase = "failed"
       /\ phase = "up" => Has(app["azure_openai"], "endpoint")

\* the endpoint was derived from the resource
C18_Witness ==
    /\ phase = "up"
    /\ <<"AZURE_OPENAI_", "ENDPOINT">> \notin DOMAIN environ
    /\ <<"AZURE_OPENAI_", "RESOURCE">> \in DOMAIN environ
    /\ app["azure_openai"]["endpoint"] = <<"https://", "RESOURCE", ".openai.azure.com">>

JsonFieldOf(variable) == IF variable[2] = "TOOLS" THEN "tools" ELSE "logit_bias"

(* C19: when a JSON-encoded variable of the Model Settings holds malformed *)
(* JSON, construction succeeds or fails as it does without that variable,  *)
(* the field is unset, and the group is the one constructed without the    *)
(* variable.                                                               *)
C19_MalformedJsonIsUnset ==
    \A v \in JsonVariables :
        (Started /\ v \in DOMAIN environ /\ environ[v] = MalformedJson)
        => LET without == AzureOpenAISettings([w \in DOMAIN environ \ {v} |-> environ[w]])
           IN  /\ (phase = "up") = without.ok
               /\ phase = "up"
                     => /\ ~Has(app["azure_openai"], JsonFieldOf(v))
                        /\ app["azure_openai"] = without.obj

\* both variables malformed, the root constructed, and a payload returned
C19_Witness ==
    /\ phase = "up"
    /\ \A v \in JsonVariables : v \in DOMAIN environ /\ environ[v] = MalformedJson
    /\ ~Has(app["azure_openai"], "logit_bias")
    /\ \E c \in Callers : ReturnedPayload(c)

-----------------------------------------------------------------------------
(* Writes of a call *)

(* C20: once a variant is active, no step changes a field of it other than *)
(* filter; and whenever no call is in flight, the variant has no filter.   *)
C20_OnlyTransientFilterWritten ==
    /\ [][(ActiveDatasource # None /\ Has(app', "datasource"))
            => Del(app'["datasource"], "filter") = Del(app["datasource"], "filter")]_vars
    /\ []((ActiveDatasource # None /\ \A c \in Callers : calls[c].pc = "idle")
            => ~Has(ActiveDatasource[1], "filter"))

-----------------------------------------------------------------------------
(* The root during calls *)

\* the class of the active datasource, none without one
ActiveClass(root) ==
    IF Has(root, "datasource") THEN Some(root["datasource"]["__class__"]) ELSE None

(* C21: once the root is constructed, no step changes the Model Settings,  *)
(* the Search settings, the UI and base settings or the optional groups,   *)
(* and no step changes which variant is the active datasource.             *)
C21_RootOnlyRead ==
    [][phase = "up"
        => /\ DOMAIN app' = DOMAIN app
           /\ \A k \in DOMAIN app \ {"datasource"} : app'[k] = app[k]
           /\ ActiveClass(app') = ActiveClass(app)]_vars

\* both callers have a payload of the vector-database variant, which read the
\* Model Settings and the Search settings of the root
C21_Witness ==
    /\ EnvDatasourceType = Some("Pinecone")
    /\ <<"SEARCH_", "MAX_SEARCH_QUERIES">> \in DOMAIN environ
    /\ \A c \in Callers :
          /\ ReturnedPayload(c)
          /\ EmittedEmbedding(c) = SharedEmbedding
          /\ Has(Parameters(c), "max_search_queries")

(* C22: no payload of the managed-search variant has a filter key, with or *)
(* without the access-control column and whatever the request; after a     *)
(* call with a usable token on a variant with the column returned, the     *)
(* instance's filter field holds a computed filter.                        *)
C22_FilterNeverEmitted ==
    \A c \in Callers :
        (ReturnedPayload(c) /\ EnvDatasourceType = Some("AzureCognitiveSearch"))
        => /\ ~Has(Parameters(c), "filter")
           /\ (ColumnConfigured /\ UsableToken(calls[c].kwargs))
                 => /\ Has(ActiveDatasource[1], "filter")
                    /\ ActiveDatasource[1]["filter"]
                          \in {generateFilterString(t) : t \in Tokens}

\* a call with a token on a variant with the column returned a payload, and the
\* filter of that token is on the instance
C22_Witness ==
    /\ ColumnConfigured
    /\ \E c \in Callers :
          /\ ReturnedPayload(c)
          /\ UsableToken(calls[c].kwargs)
          /\ Has(ActiveDatasource[1], "filter")
          /\ ActiveDatasource[1]["filter"] = OwnFilter(c)
          /\ ~Has(Parameters(c), "filter")

EmbeddingName == <<"AZURE_OPENAI_", "EMBEDDING_NAME">>

EmbeddingEndpoint == <<"AZURE_OPENAI_", "EMBEDDING_ENDPOINT">>

EmbeddingKey == <<"AZURE_OPENAI_", "EMBEDDING_KEY">>

\* the descriptor the priority of the claim gives for this environment
EmbeddingByPriority ==
    IF EmbeddingName \in DOMAIN environ
    THEN Some([type |-> "deployment_name", deployment_name |-> environ[EmbeddingName]])
    ELSE IF EmbeddingEndpoint \in DOMAIN environ
    THEN Some([type |-> "endpoint", endpoint |-> environ[EmbeddingEndpoint],
               authentication |->
                   IF EmbeddingKey \in DOMAIN environ
                   THEN [type |-> "api_key", key |-> environ[EmbeddingKey]]
                   ELSE [type |-> AmbientIdentity]])
    ELSE None

\* the variants whose payload takes the dependency from the Model Settings
TakesSharedEmbedding ==
    /\ EnvDatasourceType # None
    /\ EnvDatasourceType[1] \in
          {"AzureCognitiveSearch", "AzureCosmosDB", "Elasticsearch", "Pinecone", "MongoDB"}
    /\ ~(EnvDatasourceType = Some("Elasticsearch") /\ LocalModelId \in DOMAIN environ)

(* C23: the Model Settings resolve the embedding dependency by priority:   *)
(* a name gives the deployment-name descriptor whatever endpoint and key;  *)
(* else an endpoint gives the endpoint descriptor, with api-key            *)
(* authentication when a key is set and the ambient identity when not;     *)
(* else nothing (a key alone included).  The payload of a variant that     *)
(* takes the shared dependency has exactly that descriptor, and no         *)
(* embedding_dependency key when there is none.                            *)
C23_EmbeddingByPriority ==
    phase = "up"
    => /\ SharedEmbedding = EmbeddingByPriority
       /\ \A c \in Callers :
             (ReturnedPayload(c) /\ TakesSharedEmbedding)
             => EmittedEmbedding(c) = EmbeddingByPriority

\* a key alone: the payload of the managed-search variant has no
\* embedding_dependency key
C23_Witness ==
    /\ EnvDatasourceType = Some("AzureCognitiveSearch")
    /\ EmbeddingKey \in DOMAIN environ
    /\ EmbeddingName \notin DOMAIN environ
    /\ EmbeddingEndpoint \notin DOMAIN environ
    /\ \E c \in Callers :
          ReturnedPayload(c) /\ ~Has(Parameters(c), "embedding_dependency")

=============================================================================
